---- MODULE Spec2Model ----
(***************************************************************************)
(* Roadmap orchestrator of generator/roadmap.py: the object's fields, the  *)
(* public operations as actions, the open add_group blocks as a stack.     *)
(* The collaborators (Title, Timeline, Group, Marker, Footer, Painter) are *)
(* seen only through the calls roadmap.py makes on them.                   *)
(***************************************************************************)
EXTENDS Integers, Sequences, FiniteSets, TLC

\* ------------------------------------------------------------------ bounds
MaxGroups == 2
MaxTasks == 1
MaxClock == 4
MaxExtras == 3
MaxDepth == 2

\* --------------------------------------------------------------- geometry
HeaderHeight == 2
RowHeight == 3
BottomPadding == 1
TimelineBottom == 4

VARIABLES
    show_current_date_marker,  \* Roadmap.show_current_date_marker
    title,                     \* Roadmap.title
    timeline,                  \* Roadmap.timeline
    groups,                    \* Roadmap.groups
    footer,                    \* Roadmap.footer
    marker,                    \* Roadmap.marker
    last_y_pos,                \* Roadmap.__last_y_pos
    open,                      \* indexes of the groups whose add_group block is open, innermost last
    clock,                     \* number of operations that computed positions so far
    drawn,                     \* draw calls emitted by the latest operation
    printed,                   \* lines printed by the latest operation
    last                       \* the latest operation and how it ended

vars == <<show_current_date_marker, title, timeline, groups, footer, marker,
          last_y_pos, open, clock, drawn, printed, last>>

\* Python's None: a field that holds no object.
None == [none |-> TRUE]

\* number_of_items of set_timeline: its default, and the values callers pass.
DefaultItems == 12
ItemCounts == {1, 3}

\* ------------------------------------------------------------ start dates
\* The values callers pass as `start`: date strings, and the default value
\* of the parameter, which is a datetime object and no string.
StrStart(y, s, m, d) == [str |-> TRUE, y |-> y, sep |-> s, m |-> m, d |-> d]
DefaultStart == [str |-> FALSE, y |-> 2026, sep |-> "-", m |-> 11, d |-> 4]

Starts ==
    { StrStart(2024, "-", 1, 1),    \* "2024-01-01"
      StrStart(2024, "-", 2, 30),   \* "2024-02-30"
      StrStart(2024, "/", 1, 1),    \* "2024/01/01"
      DefaultStart }

IsLeap(y) == (y % 4 = 0 /\ y % 100 # 0) \/ y % 400 = 0

DaysInMonth(y, m) ==
    IF m = 2 THEN (IF IsLeap(y) THEN 29 ELSE 28)
    ELSE IF m \in {4, 6, 9, 11} THEN 30 ELSE 31

\* datetime.strptime(start, "%Y-%m-%d"): a TypeError for a non-string, a
\* ValueError for a string that does not match or names no calendar day.
strptime(s) ==
    IF ~s.str THEN [ok |-> FALSE, err |-> "TypeError"]
    ELSE IF s.sep # "-" THEN [ok |-> FALSE, err |-> "ValueError"]
    ELSE IF s.m \notin 1..12 THEN [ok |-> FALSE, err |-> "ValueError"]
    ELSE IF s.d \notin 1..DaysInMonth(s.y, s.m) THEN [ok |-> FALSE, err |-> "ValueError"]
    ELSE [ok |-> TRUE, date |-> <<s.y, s.m, s.d>>]

\* ------------------------------------------------------------- components
\* Task(...): a new task, no milestone, no parallel task.
Task == [milestones |-> 0, tasks |-> <<>>]

\* Group(...): a new group, no task, not laid out. `tasks` counts the
\* tasks of the group, `tree` holds them.
Group(id) ==
    [id |-> id, tasks |-> 0, tree |-> <<>>, layouts |-> 0, ok |-> FALSE, at |-> 0,
     laid_tasks |-> 0, laid_tl |-> 0]

\* Marker(...): a new marker, label and line not positioned.
Marker == [label |-> 0, label_at |-> 0, line |-> 0, line_at |-> 0]

GroupHeight(k) == HeaderHeight + k * RowHeight + BottomPadding

RECURSIVE StackedHeight(_)
StackedHeight(gs) ==
    IF gs = <<>> THEN 0
    ELSE (IF gs[1].ok THEN GroupHeight(gs[1].laid_tasks) ELSE 0)
         + StackedHeight(Tail(gs))

\* Bottom y of the lowest laid-out group: groups stack without gaps below
\* the timeline.
LastGroupBottom(gs) == TimelineBottom + StackedHeight(gs)

RECURSIVE TotalTasks(_)
TotalTasks(gs) == IF gs = <<>> THEN 0 ELSE gs[1].tasks + TotalTasks(Tail(gs))

LaidOut(gs) == { i \in 1..Len(gs) : gs[i].ok }

\* The instant of a position computed by the n-th layout operation: an
\* operation computes at most two positions, `first` before `second`.
first(n) == 2 * n
second(n) == 2 * n + 1

Op(name, fault, arg) == [op |-> name, fault |-> fault, arg |-> arg]

\* ------------------------------------------------------------------- Init
\* Roadmap(width, height, show_current_date_marker) and __post_init__.
Init ==
    /\ show_current_date_marker \in BOOLEAN
    /\ title = None
    /\ timeline = None
    /\ footer = None
    /\ marker = None
    /\ groups = <<>>
    /\ last_y_pos = 0
    /\ open = <<>>
    /\ clock = 0
    /\ drawn = <<>>
    /\ printed = <<>>
    /\ last = Op("init", FALSE, 0)

\* ------------------------------------------------------------- set_marker
set_marker ==
    /\ marker' = Marker
    /\ show_current_date_marker' = TRUE
    /\ drawn' = <<>>
    /\ printed' = <<>>
    /\ last' = Op("set_marker", FALSE, 0)
    /\ UNCHANGED <<title, timeline, groups, footer, last_y_pos, open, clock>>

\* -------------------------------------------------------------- set_title
set_title ==
    /\ clock < MaxClock
    /\ title' = [at |-> first(clock + 1)]
    /\ clock' = clock + 1
    /\ drawn' = <<>>
    /\ printed' = <<>>
    /\ last' = Op("set_title", FALSE, 0)
    /\ UNCHANGED <<show_current_date_marker, timeline, groups, footer, marker,
                   last_y_pos, open>>

\* ------------------------------------------------------------- set_footer
\* Marker.set_line_draw_position(painter) on a marker whose label was never
\* positioned reads geometry the label phase did not produce: it either
\* faults or completes with that geometry.
LineOutcomes(m) == IF m.label = 0 THEN {"fault", "ok"} ELSE {"ok"}

\* set_footer with the footer built and assigned before the marker line is
\* positioned: a fault of the line leaves the new footer behind.
set_footer_assigns_first ==
    /\ clock < MaxClock
    /\ drawn' = <<>>
    /\ printed' = <<>>
    /\ IF show_current_date_marker /\ marker = None
       THEN /\ last' = Op("set_footer", TRUE, 0)
            /\ footer' = [last_y |-> last_y_pos, at |-> 0]
            /\ UNCHANGED <<marker, clock>>
       ELSE \E out \in (IF show_current_date_marker THEN LineOutcomes(marker) ELSE {"skip"}) :
            IF out = "fault"
            THEN /\ last' = Op("set_footer", TRUE, 0)
                 /\ footer' = [last_y |-> last_y_pos, at |-> 0]
                 /\ UNCHANGED <<marker, clock>>
            ELSE /\ marker' = IF out = "ok"
                              THEN [marker EXCEPT !.line = @ + 1, !.line_at = first(clock + 1)]
                              ELSE marker
                 /\ footer' = [last_y |-> last_y_pos, at |-> second(clock + 1)]
                 /\ clock' = clock + 1
                 /\ last' = Op("set_footer", FALSE, 0)
    /\ UNCHANGED <<show_current_date_marker, title, timeline, groups, last_y_pos, open>>

\* Lines 88-103: the marker line first, when the flag is on; then the
\* footer is built, assigned and laid out with self.__last_y_pos.
set_footer ==
    /\ clock < MaxClock
    /\ drawn' = <<>>
    /\ printed' = <<>>
    /\ IF show_current_date_marker /\ marker = None
       THEN \* line 97: None has no set_line_draw_position
            /\ last' = Op("set_footer", TRUE, 0)
            /\ UNCHANGED <<marker, footer, clock>>
       ELSE \E out \in (IF show_current_date_marker THEN LineOutcomes(marker) ELSE {"skip"}) :
            IF out = "fault"
            THEN /\ last' = Op("set_footer", TRUE, 0)
                 /\ UNCHANGED <<marker, footer, clock>>
            ELSE /\ marker' = IF out = "ok"
                              THEN [marker EXCEPT !.line = @ + 1, !.line_at = first(clock + 1)]
                              ELSE marker
                 /\ footer' = [last_y |-> last_y_pos, at |-> second(clock + 1)]
                 /\ clock' = clock + 1
                 /\ last' = Op("set_footer", FALSE, 0)
    /\ UNCHANGED <<show_current_date_marker, title, timeline, groups, last_y_pos, open>>

\* ----------------------------------------------------------- set_timeline
\* set_timeline with the start string parsed lazily, after the timeline is
\* built and assigned: a malformed start leaves a timeline without layout.
set_timeline_parses_late(start, number_of_items) ==
    LET start_date == strptime(start) IN
    /\ clock < MaxClock
    /\ drawn' = <<>>
    /\ printed' = <<>>
    /\ IF ~start_date.ok
       THEN /\ timeline' = [start |-> <<0, 0, 0>>, items |-> number_of_items, at |-> 0]
            /\ last' = Op("set_timeline", TRUE, start)
            /\ UNCHANGED <<marker, clock>>
       ELSE /\ timeline' = [start |-> start_date.date, items |-> number_of_items,
                          at |-> first(clock + 1)]
            /\ clock' = clock + 1
            /\ IF ~show_current_date_marker
               THEN /\ last' = Op("set_timeline", FALSE, start)
                    /\ UNCHANGED marker
               ELSE IF marker = None
               THEN /\ last' = Op("set_timeline", TRUE, start)
                    /\ UNCHANGED marker
               ELSE /\ marker' = [marker EXCEPT !.label = @ + 1, !.label_at = second(clock + 1)]
                    /\ last' = Op("set_timeline", FALSE, start)
    /\ UNCHANGED <<show_current_date_marker, title, groups, footer, last_y_pos, open>>

\* Lines 105-130: the start string is parsed, the timeline is built,
\* assigned and laid out, then the marker label when the flag is on.
set_timeline(start, number_of_items) ==
    LET start_date == strptime(start) IN
    /\ clock < MaxClock
    /\ drawn' = <<>>
    /\ printed' = <<>>
    /\ IF ~start_date.ok
       THEN \* line 117 raises before anything is assigned
            /\ last' = Op("set_timeline", TRUE, start)
            /\ UNCHANGED <<timeline, marker, clock>>
       ELSE /\ timeline' = [start |-> start_date.date, items |-> number_of_items,
                          at |-> first(clock + 1)]
            /\ IF ~show_current_date_marker
               THEN /\ clock' = clock + 1
                    /\ last' = Op("set_timeline", FALSE, start)
                    /\ UNCHANGED marker
               ELSE IF marker = None
               THEN \* line 129: None has no set_label_draw_position
                    /\ clock' = clock + 1
                    /\ last' = Op("set_timeline", TRUE, start)
                    /\ UNCHANGED marker
               ELSE /\ marker' = [marker EXCEPT !.label = @ + 1, !.label_at = second(clock + 1)]
                    /\ clock' = clock + 1
                    /\ last' = Op("set_timeline", FALSE, start)
    /\ UNCHANGED <<show_current_date_marker, title, groups, footer, last_y_pos, open>>

\* -------------------------------------------------------------- add_group
\* Lines 142-152: the block is entered, the group is built and appended,
\* and the body receives it.
add_group_enter ==
    /\ Len(groups) < MaxGroups
    /\ groups' = Append(groups, Group(Len(groups) + 1))
    /\ open' = Append(open, Len(groups) + 1)
    /\ drawn' = <<>>
    /\ printed' = <<>>
    /\ last' = Op("add_group_enter", FALSE, Len(groups) + 1)
    /\ UNCHANGED <<show_current_date_marker, title, timeline, footer, marker,
                   last_y_pos, clock>>

\* The body of an open block adds a task to its group.
add_task(i) ==
    /\ \E k \in 1..Len(open) : open[k] = i
    /\ TotalTasks(groups) < MaxTasks
    /\ groups' = [groups EXCEPT ![i].tasks = @ + 1, ![i].tree = Append(@, Task)]
    /\ drawn' = <<>>
    /\ printed' = <<>>
    /\ last' = Op("add_task", FALSE, i)
    /\ UNCHANGED <<show_current_date_marker, title, timeline, footer, marker,
                   last_y_pos, open, clock>>

\* Group.set_draw_position(painter, timeline): the group's box spans the
\* timeline's width and its tasks are projected on the timeline, so a
\* missing timeline is dereferenced.
GroupLayoutFaults(tl) == tl = None

\* A layout placed after the yield instead of in a finally clause: it is
\* skipped when the body raises.
RunsAfterYield(raised) == ~raised

\* Line 153: the finally clause runs however the body ended.
RunsFinally(raised) == TRUE

\* Lines 153-155: the innermost open block is left, its body having ended
\* normally or raised; the finally clause lays the group out against
\* self.timeline as it is now. A fault of the layout replaces the body's
\* exception; otherwise the body's exception, if any, is re-raised.
add_group_exit(raised) ==
    /\ open # <<>>
    /\ clock < MaxClock
    /\ LET i == open[Len(open)]
           g == groups[i]
           runs == RunsFinally(raised)
           fault == runs /\ GroupLayoutFaults(timeline)
       IN /\ groups' = IF ~runs THEN groups
                        ELSE [groups EXCEPT ![i] =
                 [g EXCEPT !.layouts = @ + 1,
                           !.ok = ~fault,
                           !.at = IF fault THEN 0 ELSE first(clock + 1),
                           !.laid_tasks = g.tasks,
                           !.laid_tl = IF timeline = None THEN 0 ELSE timeline.at]]
          /\ clock' = IF fault \/ ~runs THEN clock ELSE clock + 1
          /\ last' = Op("add_group_exit", fault \/ raised,
                        [group |-> i, raised |-> raised,
                         propagates |-> IF fault THEN "layout"
                                        ELSE IF raised THEN "caller" ELSE "none"])
    /\ open' = SubSeq(open, 1, Len(open) - 1)
    /\ drawn' = <<>>
    /\ printed' = <<>>
    /\ UNCHANGED <<show_current_date_marker, title, timeline, footer, marker, last_y_pos>>

\* ------------------------------------------------------------------- draw
DrawCall(what, i) == <<what, i>>

GroupDraws(gs) == [i \in 1..Len(gs) |-> DrawCall("group", gs[i].id)]

\* draw with the marker drawn before the groups.
DrawCallsMarkerFirst ==
    IF title = None THEN <<>>
    ELSE IF timeline = None THEN <<DrawCall("title", 0)>>
    ELSE LET upto == <<DrawCall("title", 0), DrawCall("timeline", 0)>>
         IN IF marker = None THEN upto
            ELSE IF footer = None
            THEN Append(upto, DrawCall("marker", 0)) \o GroupDraws(groups)
            ELSE Append(upto, DrawCall("marker", 0)) \o GroupDraws(groups)
                 \o <<DrawCall("footer", 0)>>

\* draw that checks its components first and emits nothing when one is missing.
DrawCallsAtomic ==
    IF title = None \/ timeline = None \/ marker = None \/ footer = None THEN <<>>
    ELSE <<DrawCall("title", 0), DrawCall("timeline", 0)>> \o GroupDraws(groups)
         \o <<DrawCall("marker", 0), DrawCall("footer", 0)>>

\* The draw calls lines 158-163 emit, up to the first missing component.
DrawCalls ==
    IF title = None THEN <<>>
    ELSE IF timeline = None THEN <<DrawCall("title", 0)>>
    ELSE LET upto == <<DrawCall("title", 0), DrawCall("timeline", 0)>> \o GroupDraws(groups)
         IN IF marker = None THEN upto
            ELSE IF footer = None THEN Append(upto, DrawCall("marker", 0))
            ELSE upto \o <<DrawCall("marker", 0), DrawCall("footer", 0)>>

DrawFaults == title = None \/ timeline = None \/ marker = None \/ footer = None

\* draw that creates the marker it finds missing.
draw_creates_marker ==
    /\ marker' = IF marker = None THEN Marker ELSE marker
    /\ drawn' = DrawCalls
    /\ printed' = <<>>
    /\ last' = Op("draw", DrawFaults, 0)
    /\ UNCHANGED <<show_current_date_marker, title, timeline, groups, footer,
                   last_y_pos, open, clock>>

draw ==
    /\ drawn' = DrawCalls
    /\ printed' = <<>>
    /\ last' = Op("draw", DrawFaults, 0)
    /\ UNCHANGED <<show_current_date_marker, title, timeline, groups, footer, marker,
                   last_y_pos, open, clock>>

\* ------------------------------------------------------------------- save
\* Lines 165-166: the painter writes its surface; no field of the roadmap
\* is read or assigned.
save ==
    /\ drawn' = <<>>
    /\ printed' = <<>>
    /\ last' = Op("save", FALSE, 0)
    /\ UNCHANGED <<show_current_date_marker, title, timeline, groups, footer, marker,
                   last_y_pos, open, clock>>

\* ---------------------------------------------------- tasks of a group
\* The body of an open block adds milestones and parallel tasks: to the
\* last task of the group (depth 0), to that task's last parallel task
\* (depth 1), and so on.
RECURSIVE HasDepth(_, _)
HasDepth(task, d) ==
    IF d = 0 THEN TRUE
    ELSE task.tasks # <<>> /\ HasDepth(task.tasks[Len(task.tasks)], d - 1)

RECURSIVE WithMilestone(_, _)
WithMilestone(task, d) ==
    IF d = 0 THEN [task EXCEPT !.milestones = @ + 1]
    ELSE [task EXCEPT !.tasks[Len(task.tasks)] = WithMilestone(@, d - 1)]

RECURSIVE WithParallelTask(_, _)
WithParallelTask(task, d) ==
    IF d = 0 THEN [task EXCEPT !.tasks = Append(@, Task)]
    ELSE [task EXCEPT !.tasks[Len(task.tasks)] = WithParallelTask(@, d - 1)]

RECURSIVE Extras(_)
RECURSIVE ExtrasOfAll(_)
Extras(task) == task.milestones + Len(task.tasks) + ExtrasOfAll(task.tasks)
ExtrasOfAll(ts) == IF ts = <<>> THEN 0 ELSE Extras(ts[1]) + ExtrasOfAll(Tail(ts))

RECURSIVE TotalExtras(_)
TotalExtras(gs) ==
    IF gs = <<>> THEN 0 ELSE ExtrasOfAll(gs[1].tree) + TotalExtras(Tail(gs))

add_milestone(i, d) ==
    /\ \E k \in 1..Len(open) : open[k] = i
    /\ groups[i].tree # <<>>
    /\ HasDepth(groups[i].tree[Len(groups[i].tree)], d)
    /\ TotalExtras(groups) < MaxExtras
    /\ groups' = [groups EXCEPT ![i].tree[Len(groups[i].tree)] = WithMilestone(@, d)]
    /\ drawn' = <<>>
    /\ printed' = <<>>
    /\ last' = Op("add_milestone", FALSE, i)
    /\ UNCHANGED <<show_current_date_marker, title, timeline, footer, marker,
                   last_y_pos, open, clock>>

add_parallel_task(i, d) ==
    /\ \E k \in 1..Len(open) : open[k] = i
    /\ groups[i].tree # <<>>
    /\ HasDepth(groups[i].tree[Len(groups[i].tree)], d)
    /\ TotalExtras(groups) < MaxExtras
    /\ groups' = [groups EXCEPT ![i].tree[Len(groups[i].tree)] = WithParallelTask(@, d)]
    /\ drawn' = <<>>
    /\ printed' = <<>>
    /\ last' = Op("add_parallel_task", FALSE, i)
    /\ UNCHANGED <<show_current_date_marker, title, timeline, footer, marker,
                   last_y_pos, open, clock>>

\* ---------------------------------------------------------- print_roadmap
\* The values callers pass as print_area; "marker" stands for any value
\* that names no section.
PrintAreas == {"all", "title", "timeline", "groups", "footer", "marker"}

\* One printed line: its kind, the group it belongs to (0: none) and the
\* position of its entity below the group.
Line(kind, g, path) == <<kind, g, path>>

RECURSIVE Flatten(_)
Flatten(ss) == IF ss = <<>> THEN <<>> ELSE ss[1] \o Flatten(Tail(ss))

\* A loop over the timeline items that skips the first item.
ItemLinesSkipFirst(tl) == [k \in 1..tl.items - 1 |-> Line("item", 0, <<k + 1>>)]

\* Lines 176-182: one line per timeline item.
ItemLines(tl) == [k \in 1..tl.items |-> Line("item", 0, <<k>>)]

\* Lines 196-201 and 208-214: one line per milestone of a task.
MilestoneLines(g, path, task) ==
    [m \in 1..task.milestones |-> Line("milestone", g, Append(path, m))]

\* Lines 202-214: one line per parallel task of a task, each followed by
\* its milestones; the parallel task's own tasks are not visited.
ParallelLines(g, t, task) ==
    Flatten([p \in 1..Len(task.tasks) |->
                <<Line("parallel", g, <<t, p>>)>>
                \o MilestoneLines(g, <<t, p>>, task.tasks[p])])

\* Lines 190-214: a task, its milestones, its parallel tasks.
TaskLines(g, t, task) ==
    <<Line("task", g, <<t>>)>> \o MilestoneLines(g, <<t>>, task) \o ParallelLines(g, t, task)

\* Lines 185-214: a group and its tasks.
GroupLines(gs, g) ==
    <<Line("group", g, <<>>)>>
    \o Flatten([t \in 1..Len(gs[g].tree) |-> TaskLines(g, t, gs[g].tree[t])])

AllGroupLines(gs) == Flatten([g \in 1..Len(gs) |-> GroupLines(gs, g)])

\* A selection that takes any value naming no section for "all".
SelectedOrUnknown(area, section) ==
    area = "all" \/ area = section
    \/ area \notin {"title", "timeline", "groups", "footer"}

\* Lines 171, 174, 184, 215: the test that guards each section.
Selected(area, section) == area = "all" \/ area = section

\* Lines 168-220 run on the roadmap as it is: the lines printed up to the
\* first missing component that a selected section dereferences.
PrintRun(area) ==
    LET none == [lines |-> <<>>, fault |-> FALSE]
        t == IF ~Selected(area, "title") THEN none
             ELSE IF title = None THEN [none EXCEPT !.fault = TRUE]
             ELSE [none EXCEPT !.lines = <<Line("title", 0, <<>>)>>]
        tl == IF t.fault \/ ~Selected(area, "timeline") THEN t
              ELSE IF timeline = None
              THEN [lines |-> Append(t.lines, Line("timeline", 0, <<>>)), fault |-> TRUE]
              ELSE [t EXCEPT !.lines = Append(@, Line("timeline", 0, <<>>))
                                       \o ItemLines(timeline)]
        g == IF tl.fault \/ ~Selected(area, "groups") THEN tl
             ELSE [tl EXCEPT !.lines = @ \o AllGroupLines(groups)]
    IN  IF g.fault \/ ~Selected(area, "footer") THEN g
        ELSE IF footer = None THEN [g EXCEPT !.fault = TRUE]
        ELSE [g EXCEPT !.lines = Append(@, Line("footer", 0, <<>>))]

print_roadmap(print_area) ==
    /\ printed' = PrintRun(print_area).lines
    /\ drawn' = <<>>
    /\ last' = Op("print_roadmap", PrintRun(print_area).fault, print_area)
    /\ UNCHANGED <<show_current_date_marker, title, timeline, groups, footer, marker,
                   last_y_pos, open, clock>>

Next ==
    \/ set_marker
    \/ set_title
    \/ set_footer
    \/ \E start \in Starts : set_timeline(start, DefaultItems)
    \/ add_group_enter
    \/ \E i \in 1..MaxGroups : add_task(i)
    \/ \E raised \in BOOLEAN : add_group_exit(raised)
    \/ draw

Spec == Init /\ [][Next]_vars

\* The operations with the diagnostic dump and save, on roadmaps whose
\* timelines have a few items: well-formed starts, blocks whose bodies do
\* not raise, one layout operation and one group fewer than in Spec.
PrintClock == MaxClock - 1

NextPrint ==
    \/ set_marker
    \/ set_title /\ clock' <= PrintClock
    \/ set_footer /\ clock' <= PrintClock
    \/ \E n \in ItemCounts : set_timeline(StrStart(2024, "-", 1, 1), n) /\ clock' <= PrintClock
    \/ add_group_enter /\ Len(groups') < MaxGroups
    \/ \E i \in 1..MaxGroups : add_task(i)
    \/ add_group_exit(FALSE) /\ clock' <= PrintClock
    \/ draw
    \/ save
    \/ \E area \in PrintAreas : print_roadmap(area)

SpecPrint == Init /\ [][NextPrint]_vars

\* The dump of groups whose tasks carry milestones and parallel tasks, on
\* roadmaps built with well-formed starts and blocks whose bodies do not
\* raise.
NextTree ==
    \/ set_title
    \/ set_footer
    \/ set_timeline(StrStart(2024, "-", 1, 1), DefaultItems)
    \/ add_group_enter
    \/ \E i \in 1..MaxGroups : add_task(i)
    \/ \E i \in 1..MaxGroups : \E d \in 0..MaxDepth : add_milestone(i, d)
    \/ \E i \in 1..MaxGroups : \E d \in 0..MaxDepth : add_parallel_task(i, d)
    \/ add_group_exit(FALSE)
    \/ \E area \in {"all", "groups"} : print_roadmap(area)

SpecTree == Init /\ [][NextTree]_vars

\* ========================================================== properties
IsOpen(i) == \E k \in 1..Len(open) : open[k] = i

TimelineId == IF timeline = None THEN 0 ELSE timeline.at

\* C1 (as amended): a group is in the groups list from the moment its
\* add_group block is entered and is not laid out while the block is open;
\* when the block is left, normally or by an exception of the body, the
\* group's layout has been invoked exactly once, with exactly the tasks
\* added in the block and against the timeline the roadmap holds at that
\* moment; the group stays in the list, and when the body raised an
\* exception leaves the block: the body's own when the layout succeeded,
\* the layout's fault when the layout faulted.
C1_ScopedLayout ==
    /\ \A i \in 1..Len(groups) :
          IF IsOpen(i) THEN groups[i].layouts = 0
          ELSE groups[i].layouts = 1 /\ groups[i].laid_tasks = groups[i].tasks
    /\ \A k \in 1..Len(open) : open[k] \in 1..Len(groups)
    /\ last.op = "add_group_enter" =>
          /\ Len(groups) = last.arg
          /\ open # <<>> /\ open[Len(open)] = last.arg
    /\ last.op = "add_group_exit" =>
          /\ last.arg.group \in 1..Len(groups)
          /\ LET g == groups[last.arg.group]
             IN /\ g.layouts = 1
                /\ g.laid_tasks = g.tasks
                /\ g.laid_tl = TimelineId
                /\ g.ok = ~GroupLayoutFaults(timeline)
                /\ last.arg.raised =>
                      /\ last.fault
                      /\ last.arg.propagates = IF g.ok THEN "caller" ELSE "layout"
                /\ ~last.arg.raised => last.fault = ~g.ok

\* C1 witness: a block whose body added a task and then raised has been
\* left, the group was laid out and the body's exception propagated.
C1_Witness ==
    /\ last.op = "add_group_exit"
    /\ last.arg.raised
    /\ groups[last.arg.group].tasks >= 1
    /\ groups[last.arg.group].ok
    /\ last.arg.propagates = "caller"

\* C1 as stated: whenever the body raised, it is the body's exception that
\* leaves the block.
C1_Original ==
    (last.op = "add_group_exit" /\ last.arg.raised)
        => /\ groups[last.arg.group].layouts = 1
           /\ last.arg.propagates = "caller"

\* Position of a draw call in the order title, timeline, groups in list
\* order, marker, footer.
Rank(call) ==
    IF call[1] = "title" THEN 1
    ELSE IF call[1] = "timeline" THEN 2
    ELSE IF call[1] = "group" THEN 2 + call[2]
    ELSE IF call[1] = "marker" THEN 3 + Len(groups)
    ELSE 4 + Len(groups)

\* C2: the draw calls of one draw are emitted in the order title, timeline,
\* the groups in the order they were added, marker, footer: the n-th call
\* emitted is the n-th component of that order, so none is emitted twice or
\* passed over, and a draw that completes has emitted all of them.
C2_DrawOrder ==
    last.op = "draw" =>
        /\ \A n \in 1..Len(drawn) : Rank(drawn[n]) = n
        /\ \A n \in 1..Len(drawn) :
              drawn[n][1] = "group" => drawn[n][2] = groups[n - 2].id
        /\ ~last.fault => Len(drawn) = 4 + Len(groups)

\* C2 witness: a draw of a roadmap with two groups has completed.
C2_Witness ==
    /\ last.op = "draw"
    /\ ~last.fault
    /\ Len(groups) = 2
    /\ Len(drawn) = 6

\* C3 as stated: on a roadmap whose marker was never configured (no
\* set_marker call, flag off), after set_title, set_timeline, the add_group
\* blocks and set_footer in that order, draw completes and emits title, timeline, the groups and footer, and no
\* marker call.
C3_NoMarkerDraw ==
    (/\ last.op = "draw"
     /\ marker = None /\ ~show_current_date_marker
     /\ title # None /\ timeline # None /\ footer # None
     /\ title.at < timeline.at /\ timeline.at < footer.at
     /\ \A i \in 1..Len(groups) :
           groups[i].ok /\ timeline.at < groups[i].at /\ groups[i].at < footer.at)
        => /\ ~last.fault
           /\ Len(drawn) = 3 + Len(groups)
           /\ \A n \in 1..Len(drawn) : drawn[n][1] # "marker"
           /\ drawn[Len(drawn)][1] = "footer"

\* C4 as stated: once set_footer has completed on a roadmap whose marker
\* was configured with set_marker and whose timeline is set, the marker's
\* label has been positioned, the marker's line was positioned after the
\* label, and after the layout of every group in the groups list.
C4_TwoPhaseMarker ==
    (/\ last.op = "set_footer" /\ ~last.fault
     /\ marker # None /\ timeline # None)
        => /\ marker.label >= 1
           /\ marker.line >= 1
           /\ marker.label_at < marker.line_at
           /\ \A i \in 1..Len(groups) :
                 groups[i].layouts >= 1 /\ groups[i].at < marker.line_at

\* C5 as stated: when set_footer has laid the footer out with at least one
\* group laid out, the last-y position it handed to the footer's layout is
\* the bottom of the lowest laid-out group, not the value the roadmap was
\* constructed with.
C5_FooterAnchor ==
    (/\ last.op = "set_footer" /\ ~last.fault
     /\ LaidOut(groups) # {})
        => /\ footer.last_y = LastGroupBottom(groups)
           /\ footer.last_y # 0

\* C6: a draw invoked while title, timeline or footer is missing faults,
\* the fault reaches the caller, and the calls emitted are exactly those of
\* the components that precede the first missing one in draw order: none
\* with the title missing, the title alone with the timeline missing, and
\* title, timeline and every group (then the marker, when there is one)
\* with only the footer missing.
C6_DrawFaults ==
    (last.op = "draw" /\ (title = None \/ timeline = None \/ footer = None))
        => /\ last.fault
           /\ title = None => drawn = <<>>
           /\ (title # None /\ timeline = None) => drawn = <<DrawCall("title", 0)>>
           /\ (title # None /\ timeline # None) =>
                 /\ Len(drawn) = 2 + Len(groups) + (IF marker = None THEN 0 ELSE 1)
                 /\ drawn[1] = DrawCall("title", 0)
                 /\ drawn[2] = DrawCall("timeline", 0)
                 /\ \A i \in 1..Len(groups) : drawn[2 + i] = DrawCall("group", i)
                 /\ marker # None => drawn[Len(drawn)] = DrawCall("marker", 0)

\* C6 witness: a draw has faulted on the missing footer after emitting
\* title, timeline, a group and the marker.
C6_Witness ==
    /\ last.op = "draw" /\ last.fault
    /\ title # None /\ timeline # None /\ marker # None /\ footer = None
    /\ Len(groups) >= 1
    /\ Len(drawn) = 3 + Len(groups)

\* C7 as stated: a set_footer invoked with no timeline set and no group
\* laid out faults and leaves the roadmap without a footer, marker enabled
\* or not.
C7_FooterBeforeLayout ==
    (last.op = "set_footer" /\ timeline = None /\ LaidOut(groups) = {})
        => last.fault /\ footer = None

\* C7 (as amended): a set_footer invoked with no timeline set and no group
\* laid out does not fault when the marker flag is off: it builds the
\* footer and lays it out with last-y 0. It faults only with the flag on,
\* while positioning the marker line (no marker object, or a marker whose
\* label was never positioned); the fault reaches the caller and footer,
\* marker and every other field are left as they were.
C7_FooterBeforeLayoutAmended ==
    [][ (last'.op = "set_footer" /\ timeline = None /\ LaidOut(groups) = {})
          => /\ ~show_current_date_marker =>
                   /\ ~last'.fault
                   /\ footer' # None /\ footer'.last_y = 0
                   /\ marker' = marker
             /\ last'.fault =>
                   /\ show_current_date_marker
                   /\ marker = None \/ marker.label = 0
                   /\ footer' = footer /\ marker' = marker /\ clock' = clock
             /\ (show_current_date_marker /\ marker = None) => last'.fault
             /\ UNCHANGED <<show_current_date_marker, title, timeline, groups, last_y_pos>>
      ]_vars

\* C7 witness: set_footer has completed on a roadmap without marker,
\* timeline or groups, and the roadmap has a footer.
C7_Witness ==
    /\ last.op = "set_footer" /\ ~last.fault
    /\ ~show_current_date_marker /\ marker = None
    /\ timeline = None /\ groups = <<>>
    /\ footer # None /\ footer.last_y = 0

\* C8 as stated: the marker flag is on only if set_marker has been called,
\* so a marker object exists whenever the flag is on, and no set_timeline or
\* set_footer faults on a missing marker.
C8_FlagOnlyViaSetMarker ==
    /\ show_current_date_marker => marker # None
    /\ (last.op = "set_timeline" /\ strptime(last.arg).ok) => ~last.fault

\* C9: a set_timeline whose start cannot be parsed (a malformed string, or
\* the parameter's default, which is no string) faults before anything is
\* assigned: the timeline is the one held before the call, no position is
\* computed, the marker label is not positioned and no other field changes.
C9_ParseFailsFirst ==
    [][ (last'.op = "set_timeline" /\ ~strptime(last'.arg).ok)
          => /\ last'.fault
             /\ timeline' = timeline
             /\ marker' = marker
             /\ clock' = clock
             /\ UNCHANGED <<show_current_date_marker, title, groups, footer,
                            last_y_pos, open>>
      ]_vars

\* C9 witness: a set_timeline with a malformed start string has faulted on
\* a roadmap that holds a timeline and a marker with its label positioned.
C9_Witness ==
    /\ last.op = "set_timeline" /\ last.fault
    /\ last.arg.str /\ ~strptime(last.arg).ok
    /\ timeline # None
    /\ marker # None /\ marker.label = 1

\* C10 as stated: the groups list holds the groups in the order their
\* blocks were entered, and the groups are laid out in that order: of two
\* laid-out groups, the one earlier in the list was laid out first.
C10_StackingOrder ==
    \A i \in 1..Len(groups) : \A j \in 1..Len(groups) :
        i < j =>
            /\ groups[i].id < groups[j].id
            /\ (groups[i].ok /\ groups[j].ok) => groups[i].at < groups[j].at

\* C13 as stated: when a draw has completed without a fault (on a roadmap
\* whose marker had its label and then its line positioned), the positions
\* were computed in the order title, timeline, marker label, groups, marker
\* line, footer: the title before the timeline, the label (when positioned)
\* after the timeline and before every group, the line (when positioned)
\* after every group and before the footer, and no group after the footer.
C13_LayoutOrder ==
    (/\ last.op = "draw" /\ ~last.fault
     /\ marker.label >= 1 /\ marker.line >= 1 /\ marker.label_at < marker.line_at)
        => /\ title.at < timeline.at
           /\ \A i \in 1..Len(groups) :
                 groups[i].ok => (timeline.at < groups[i].at /\ groups[i].at < footer.at)
           /\ marker.label >= 1 =>
                 /\ timeline.at < marker.label_at
                 /\ \A i \in 1..Len(groups) : groups[i].ok => marker.label_at < groups[i].at
           /\ marker.line >= 1 =>
                 /\ marker.line_at < footer.at
                 /\ \A i \in 1..Len(groups) : groups[i].ok => groups[i].at < marker.line_at

\* C14 as stated: no component object has its position computed twice: a
\* group is laid out at most once, and a marker whose label has been
\* positioned has had its label positioned once and its line positioned at
\* most once, however often set_timeline and set_footer ran.
C14_SinglePass ==
    /\ \A i \in 1..Len(groups) : groups[i].layouts <= 1
    /\ (marker # None /\ marker.label >= 1) => (marker.label = 1 /\ marker.line <= 1)

\* C15 as stated: with no add_group block open, every laid-out group of the
\* groups list was laid out against the timeline the roadmap holds now.
C15_GroupsOnCurrentTimeline ==
    open = <<>> =>
        \A i \in 1..Len(groups) :
            groups[i].ok => (timeline # None /\ groups[i].laid_tl = timeline.at)

\* C17 as stated: with no add_group block open, every group of the groups
\* list has had its layout run exactly once and complete: a group whose
\* layout faulted is not in the list.
C17_OnlyLaidOutGroupsListed ==
    open = <<>> =>
        \A i \in 1..Len(groups) : groups[i].layouts = 1 /\ groups[i].ok

\* A print_roadmap with print_area = all has completed on a roadmap with
\* title, timeline and footer set and no group.
EmptyDumped ==
    /\ last.op = "print_roadmap" /\ last.arg = "all" /\ ~last.fault
    /\ title # None /\ timeline # None /\ footer # None
    /\ groups = <<>>

\* C11 as stated: the dump of an empty roadmap (title set, timeline with n
\* items set, zero groups, footer set) with print_area = all produces
\* exactly the title line, then the n timeline item lines, then the footer
\* line, and no other line.
C11_EmptyDump ==
    EmptyDumped =>
        /\ Len(printed) = timeline.items + 2
        /\ printed[1] = Line("title", 0, <<>>)
        /\ \A k \in 1..timeline.items : printed[k + 1] = Line("item", 0, <<k>>)
        /\ printed[Len(printed)] = Line("footer", 0, <<>>)

\* C11 (as amended): the dump of an empty roadmap (title set, timeline with
\* n items set, zero groups, footer set) with print_area = all produces
\* exactly the title line, then the "Timeline:" header line, then the n
\* timeline item lines in item order, then the footer line: n + 3 lines,
\* none of them a group, task or milestone line.
C11_EmptyDumpAmended ==
    EmptyDumped =>
        /\ Len(printed) = timeline.items + 3
        /\ printed[1] = Line("title", 0, <<>>)
        /\ printed[2] = Line("timeline", 0, <<>>)
        /\ \A k \in 1..timeline.items : printed[k + 2] = Line("item", 0, <<k>>)
        /\ printed[Len(printed)] = Line("footer", 0, <<>>)
        /\ \A k \in 1..Len(printed) :
              printed[k][1] \in {"title", "timeline", "item", "footer"}

\* C11 witness: an empty roadmap whose timeline has several items has been
\* dumped with print_area = all.
C11_Witness == EmptyDumped /\ timeline.items > 1

\* The entities of the groups' trees: every group, every task, and every
\* milestone and parallel task at every depth.
RECURSIVE TreeSize(_)
TreeSize(gs) ==
    IF gs = <<>> THEN 0
    ELSE 1 + Len(gs[1].tree) + ExtrasOfAll(gs[1].tree) + TreeSize(Tail(gs))

\* The group, task, parallel task and milestone lines of the latest dump.
EntityLines ==
    {k \in 1..Len(printed) : printed[k][1] \in {"group", "task", "parallel", "milestone"}}

\* C12 as stated: a dump with print_area = all that has completed on a
\* roadmap whose groups are all laid out has emitted one line for every
\* group, every task of every group, every milestone of every task, and
\* every nested parallel task at every nesting depth with that task's
\* milestones.
C12_FullTree ==
    /\ last.op = "print_roadmap" /\ last.arg = "all" /\ ~last.fault
    /\ open = <<>>
    /\ \A i \in 1..Len(groups) : groups[i].ok
    => Cardinality(EntityLines) = TreeSize(groups)

\* The section a printed line belongs to, in the order of the sections.
SectionOf(line) ==
    CASE line[1] = "title" -> 1
      [] line[1] \in {"timeline", "item"} -> 2
      [] line[1] \in {"group", "task", "parallel", "milestone"} -> 3
      [] line[1] = "footer" -> 4

SectionNo(area) ==
    CASE area = "title" -> 1
      [] area = "timeline" -> 2
      [] area = "groups" -> 3
      [] area = "footer" -> 4

\* The lines section n prints when its component is set.
SectionLines(n) ==
    CASE n = 1 -> <<Line("title", 0, <<>>)>>
      [] n = 2 -> <<Line("timeline", 0, <<>>)>>
                  \o [k \in 1..timeline.items |-> Line("item", 0, <<k>>)]
      [] n = 3 -> AllGroupLines(groups)
      [] n = 4 -> <<Line("footer", 0, <<>>)>>

\* The component section n dereferences is not set (the groups section
\* dereferences only the groups list, which is always there).
SectionMissing(n) ==
    CASE n = 1 -> title = None
      [] n = 2 -> timeline = None
      [] n = 3 -> FALSE
      [] n = 4 -> footer = None

\* C16: print_roadmap selects sections by print_area. With all it emits
\* the sections in the order title, timeline, groups, footer, and faults
\* exactly when title, timeline or footer is not set; with title, timeline,
\* groups or footer it emits lines of that section only, all of them when
\* it completes, and faults exactly when that section's own component is
\* not set, whatever the other components are; with any other value it
\* emits nothing and does not fault.
C16_SectionSelection ==
    last.op = "print_roadmap" =>
        /\ last.arg = "all" =>
              /\ \A j, k \in 1..Len(printed) :
                    j < k => SectionOf(printed[j]) <= SectionOf(printed[k])
              /\ last.fault = (title = None \/ timeline = None \/ footer = None)
              /\ ~last.fault =>
                    printed = SectionLines(1) \o SectionLines(2)
                              \o SectionLines(3) \o SectionLines(4)
        /\ last.arg \in {"title", "timeline", "groups", "footer"} =>
              /\ \A k \in 1..Len(printed) : SectionOf(printed[k]) = SectionNo(last.arg)
              /\ last.fault = SectionMissing(SectionNo(last.arg))
              /\ ~last.fault => printed = SectionLines(SectionNo(last.arg))
        /\ last.arg \notin {"all", "title", "timeline", "groups", "footer"} =>
              printed = <<>> /\ ~last.fault

\* C16 witness: a dump of the groups section alone has completed and
\* printed a group and its task on a roadmap with neither title nor
\* footer.
C16_Witness ==
    /\ last.op = "print_roadmap" /\ last.arg = "groups" /\ ~last.fault
    /\ title = None /\ footer = None
    /\ Len(printed) >= 2

\* C18: draw, save and print_roadmap leave the roadmap's layout state
\* unchanged: title, timeline, the groups list and its order, footer,
\* marker, the marker flag, the last y position and the open blocks are
\* the same after the call as before it, whether the call completes or
\* faults; so a draw that follows a draw emits the same sequence of
\* components and ends the same way.
C18_FrameEffect ==
    [][/\ last'.op \in {"draw", "save", "print_roadmap"} =>
             UNCHANGED <<show_current_date_marker, title, timeline, groups, footer,
                         marker, last_y_pos, open, clock>>
       /\ (last.op = "draw" /\ last'.op = "draw") =>
             (drawn' = drawn /\ last'.fault = last.fault)]_vars

\* C18 witness: a draw has completed on a roadmap with a marker and a
\* group, after emitting every component.
C18_Witness ==
    /\ last.op = "draw" /\ ~last.fault
    /\ marker # None /\ groups # <<>>
    /\ Len(drawn) = Len(groups) + 4
====
